---- MODULE Spec2Model ----
(***************************************************************************)
(* Model of the URL import pipeline of cv_manager                          *)
(* (src/services/url_import_service.py): the orchestrators                 *)
(* import_offer_from_url / import_offer_from_url_browser, the two          *)
(* fetchers, the extractors, the listing/shell classifier and the          *)
(* diagnostics writer.                                                     *)
(*                                                                         *)
(* Representation.  A Python str is a sequence of tokens: " " is one       *)
(* whitespace character, every other token is a run of non-whitespace      *)
(* characters (a word, a keyword phrase, an HTML tag).  TokLen gives the   *)
(* number of characters of a token, TokLower its lower-cased form and      *)
(* TokMarkers the keyword substrings it contains, so that strip(), len(),  *)
(* lower() and the `in` substring tests are computed, not assumed.         *)
(* A dict is a function whose DOMAIN is the set of keys present.           *)
(***************************************************************************)
EXTENDS Integers, Sequences, FiniteSets, TLC

\* ------------------------------------------------------------------ text

SP == " "
TAG == "<p>"
DASH == "-"

TokLen(t) ==
    CASE t = "lorem100" -> 100
      [] t = "Offres d'emploi" -> 15
      [] t = "offres d'emploi" -> 15
      [] t = "Postulez" -> 8
      [] t = "Trouvez" -> 7
      [] t = "Ingenieur" -> 9
      [] t = "resultats" -> 9
      [] t = "Categorie" -> 9
      [] t = "categorie" -> 9
      [] t = "Geneve" -> 6
      [] t = "Acme" -> 4
      [] t = "Jobs" -> 4
      [] t = "CDI" -> 3
      [] t = "h/f" -> 3
      [] t = "Dev" -> 3
      [] t = "dev" -> 3
      [] t = TAG -> 3
      [] OTHER -> 1

TokLower(t) ==
    CASE t = "Offres d'emploi" -> "offres d'emploi"
      [] t = "Postulez" -> "postulez"
      [] t = "Trouvez" -> "trouvez"
      [] t = "Ingenieur" -> "ingenieur"
      [] t = "Geneve" -> "geneve"
      [] t = "Acme" -> "acme"
      [] t = "Jobs" -> "jobs"
      [] t = "Dev" -> "dev"
      [] t = "Categorie" -> "categorie"
      [] OTHER -> t

\* The keyword substrings (case-sensitive) a token contains.
TokMarkers(t) ==
    CASE t = "offres d'emploi" -> {"offres d'emploi", "emploi"}
      [] t = "jobs" -> {"jobs", "job"}
      [] t = "trouvez" -> {"trouvez"}
      [] t = "postulez" -> {"postulez"}
      [] t = "geneve" -> {"geneve"}
      [] t = "resultats" -> {"result", "resultats"}
      [] t = "categorie" -> {"categorie"}
      [] OTHER -> {}

\* len(s)
RECURSIVE TextLen(_)
TextLen(s) == IF s = <<>> THEN 0 ELSE TokLen(Head(s)) + TextLen(Tail(s))

\* s.lower()
Lower(s) == [i \in 1..Len(s) |-> TokLower(s[i])]

\* marker in s
Contains(s, marker) == \E i \in 1..Len(s) : marker \in TokMarkers(s[i])

\* s.lstrip() / s.rstrip() / s.strip()
RECURSIVE LStrip(_)
LStrip(s) == IF s # <<>> /\ Head(s) = SP THEN LStrip(Tail(s)) ELSE s

RECURSIVE RStrip(_)
RStrip(s) ==
    IF s # <<>> /\ s[Len(s)] = SP THEN RStrip(SubSeq(s, 1, Len(s) - 1)) ELSE s

Strip(s) == RStrip(LStrip(s))

\* s[:n] : the longest prefix of whole tokens holding at most n characters
RECURSIVE Truncate(_, _)
Truncate(s, n) ==
    IF s = <<>> \/ TokLen(Head(s)) > n THEN <<>>
    ELSE <<Head(s)>> \o Truncate(Tail(s), n - TokLen(Head(s)))

\* BeautifulSoup(html).get_text(" ", strip=True): the text nodes between the
\* tags, each stripped, the empty ones dropped, joined by one space.
RECURSIVE TextNodes(_, _)
TextNodes(s, cur) ==
    IF s = <<>> THEN (IF Strip(cur) = <<>> THEN <<>> ELSE <<Strip(cur)>>)
    ELSE IF Head(s) = TAG
         THEN (IF Strip(cur) = <<>> THEN <<>> ELSE <<Strip(cur)>>)
              \o TextNodes(Tail(s), <<>>)
         ELSE TextNodes(Tail(s), Append(cur, Head(s)))

RECURSIVE JoinSp(_)
JoinSp(parts) ==
    IF parts = <<>> THEN <<>>
    ELSE IF Len(parts) = 1 THEN parts[1]
    ELSE parts[1] \o <<SP>> \o JoinSp(Tail(parts))

_strip_html(html) == JoinSp(TextNodes(html, <<>>))

\* re.sub(r"\s+[-|...].*$", "", title): cut at the first whitespace run that a
\* dash-like character follows
DashCut(t) ==
    LET starts == {i \in 1..Len(t) :
                     /\ t[i] = SP
                     /\ \E k \in i..Len(t) - 1 :
                          /\ \A j \in i..k : t[j] = SP
                          /\ t[k + 1] = DASH}
    IN IF starts = {} THEN t
       ELSE SubSeq(t, 1, (CHOOSE i \in starts : \A j \in starts : i <= j) - 1)

_clean_title(title) == IF title = <<>> THEN <<>> ELSE Strip(DashCut(title))

\* ------------------------------------------------------------------- URL

\* A URL as urlparse sees it: scheme, netloc (host tokens), path segments and
\* whether the path ends with "/".  The empty string is EmptyUrl.
Url(scheme, netloc, path, slash) ==
    [scheme |-> scheme, netloc |-> netloc, path |-> path, slash |-> slash]

EmptyUrl == Url("", <<>>, <<>>, FALSE)
\* "jobup.ch/emplois/detail" typed without a scheme: urlparse puts it all in path
NoSchemeUrl == Url("", <<>>, <<"jobup.ch", "emplois", "detail">>, FALSE)
JobupDetailUrl ==
    Url("HTTPS", <<"WWW.", "JobUp.ch", ":", "8080">>, <<"fr", "Emplois", "Detail", "42">>, FALSE)
JobupListUrl == Url("https", <<"www.", "jobup.ch">>, <<"fr", "emplois">>, TRUE)
AcmeJobUrl == Url("https", <<"acme.com">>, <<"job", "1">>, FALSE)

\* "https:///fr/emplois": a scheme and no host
NoHostUrl == Url("https", <<>>, <<"fr", "emplois">>, FALSE)
\* "//jobup.ch/fr/emplois": a host and no scheme
NoSchemeHostUrl == Url("", <<"jobup.ch">>, <<"fr", "emplois">>, FALSE)

InputUrls ==
    {EmptyUrl, NoSchemeUrl, NoHostUrl, NoSchemeHostUrl, JobupDetailUrl, JobupListUrl,
     AcmeJobUrl}

\* Where a fetch may end after redirects
RedirectTargets == {JobupListUrl}

HostLower(t) ==
    CASE t = "WWW." -> "www."
      [] t = "JobUp.ch" -> "jobup.ch"
      [] OTHER -> t

SegLower(t) ==
    CASE t = "Emplois" -> "emplois"
      [] t = "Detail" -> "detail"
      [] OTHER -> t

\* the substrings of interest a lower-cased path segment contains
SegMarkers(t) ==
    CASE t = "detail" -> {"detail"}
      [] t = "emplois" -> {"emplois"}
      [] OTHER -> {}

\* netloc.lower()
NetlocLower(n) == [i \in 1..Len(n) |-> HostLower(n[i])]

\* s.replace("www.", "")
DropWww(n) == SelectSeq(n, LAMBDA t : t # "www.")

\* s.split(":")[0]
RECURSIVE BeforeColon(_)
BeforeColon(n) ==
    IF n = <<>> \/ Head(n) = ":" THEN <<>> ELSE <<Head(n)>> \o BeforeColon(Tail(n))

\* urlunparse(urlparse(url)): the scheme is lower-cased, the rest is kept
Normalize(u) == [u EXCEPT !.scheme = IF @ = "HTTPS" THEN "https" ELSE @]

_domain_is_jobup(source_site) ==
    BeforeColon(DropWww(NetlocLower(source_site))) = <<"jobup.ch">>

_humanize_domain(domain) == BeforeColon(DropWww(domain))

\* "/seg/" in path
HasSegment(u, seg) ==
    \E i \in 1..Len(u.path) :
        SegLower(u.path[i]) = seg /\ (i < Len(u.path) \/ u.slash)

\* sub in path
PathContains(u, sub) ==
    \E i \in 1..Len(u.path) : sub \in SegMarkers(SegLower(u.path[i]))

_is_probable_detail_url(u) ==
    IF u = EmptyUrl THEN FALSE
    ELSE IF HasSegment(u, "detail") \/ HasSegment(u, "job") \/ HasSegment(u, "jobs")
         THEN TRUE
    ELSE PathContains(u, "emplois") /\ PathContains(u, "detail")

\* final_url or url
FinalOr(final_url, url) == IF final_url = EmptyUrl THEN url ELSE final_url

\* ------------------------------------------------------------------ dict

\* data.get(k) for a text field: None and "" are both falsy
Get(d, k) == IF k \in DOMAIN d THEN d[k] ELSE <<>>
Truthy(d, k) == k \in DOMAIN d /\ d[k] # <<>>
\* data[k] = v
Put(d, k, v) == [x \in DOMAIN d \cup {k} |-> IF x = k THEN v ELSE d[x]]

\* ------------------------------------------------------------- documents

\* JSON values as json.loads returns them
JNull == [t |-> "null"]
JStr(s) == [t |-> "str", s |-> s]
JDict(name) == [t |-> "dict", name |-> name]
\* a jobLocation (or the first entry of a jobLocation list) with an address dict
JLoc(locality) == [t |-> "loc", addressLocality |-> locality]

\* A <meta> tag: its property (or name) and its content attribute
Meta(prop, content) == [prop |-> prop, content |-> content]

\* A JSON-LD node: a dict with @type, title, hiringOrganization, jobLocation,
\* employmentType, description; or a value that is not a dict.
Node(type, title, hiring, loc, etype, desc) ==
    [isdict |-> TRUE, type |-> type, title |-> title, hiringOrganization |-> hiring,
     jobLocation |-> loc, employmentType |-> etype, description |-> desc]

NotADict == [isdict |-> FALSE]

\* An application/ld+json script: kind is what json.loads gives ("invalid":
\* it raises; "scalar": neither an object nor a list) and nodes the nodes of
\* the object, the list or the @graph.
Script(kind, nodes) == [kind |-> kind, nodes |-> nodes]

\* The page region _extract_jobup_detail_from_page reads, as its regular
\* expressions cut it: whether the details marker is found, whether the
\* job-info section follows it, the captures of the two labelled values,
\* the stripped non-empty header lines, and the cleaned text after the labels.
Block(marker, infos, loc, contrat, lines, desc) ==
    [marker |-> marker, infos |-> infos, loc |-> loc, contrat |-> contrat,
     lines |-> lines, desc |-> desc]

\* A parsed document: <title> string ("" when absent), the <meta> tags and
\* the ld+json scripts in document order, the jobup region, the longest text
\* of the targeted containers and the visible text of the whole page.
Doc(title, metas, scripts, jobup, targeted, visible) ==
    [title |-> title, metas |-> metas, scripts |-> scripts, jobup |-> jobup,
     targeted |-> targeted, visible |-> visible]

Lorem201 == <<"lorem100", SP, "lorem100">>
Lorem200 == <<"lorem100", "lorem100">>

\* the title of a result list, "Offres d'emploi - resultats"
ListingResultsTitle == <<"Offres d'emploi", SP, DASH, SP, "resultats">>

Titles ==
    {<<>>, <<"Dev", SP, DASH, SP, "Acme">>, ListingResultsTitle}

\* the <meta> tags of a page, in document order
MetaLists ==
    {<<>>,
     <<Meta("og:title", <<SP>>)>>,
     <<Meta("og:title", <<SP>>), Meta("og:title", <<"Ingenieur">>)>>,
     <<Meta("og:description", <<"Trouvez", SP, "Postulez">>)>>,
     <<Meta("description", <<"Dev">>), Meta("og:title", <<"Dev", SP>>)>>,
     <<Meta("og:site_name", <<"Acme">>), Meta("og:title", <<"Dev">>),
       Meta("og:title", <<"Ingenieur">>)>>}

JobNode == Node("JobPosting", JStr(<<"dev", SP>>), JDict(JStr(<<"Acme">>)), JNull, JNull,
                JStr(<<"Dev", TAG, SP, "Acme">>))
BareJobNode == Node("Thing,JobPosting", JNull, JStr(<<"Acme">>), JLoc(JNull), JNull, JNull)
OtherNode == Node("BreadcrumbList", JStr(<<"Jobs">>), JNull, JNull, JNull, JNull)

Scripts ==
    {Script("invalid", <<>>),
     Script("object", <<OtherNode>>),
     Script("object", <<JobNode>>),
     Script("list", <<NotADict, BareJobNode>>)}

NoBlock == Block(FALSE, FALSE, <<>>, <<>>, <<>>, <<>>)
DetailBlock ==
    Block(TRUE, TRUE, <<"Geneve">>, <<"CDI">>,
          <<<<"Offres d'emploi">>, <<"Ingenieur", SP, DASH, SP, "h/f">>, <<"Geneve">>>>,
          Lorem201)
ThinBlock ==
    Block(TRUE, TRUE, <<>>, <<"CDI">>, <<<<"Ingenieur">>, <<"Acme">>>>, Lorem200)

Blocks == {NoBlock, DetailBlock, ThinBlock}

Bodies == {[targeted |-> <<>>, visible |-> <<>>],
           [targeted |-> <<"Dev">>, visible |-> <<"Jobs", SP, "Dev">>]}

\* the sequences over S of length at most n
SeqUpTo(S, n) == UNION {[1..k -> S] : k \in 0..n}

MaxScripts == 1

\* JobPosting nodes that differ by their description: a short one, one of the
\* length of JobNode's with another text, one that holds markup only
ShortNode == Node("JobPosting", JNull, JNull, JNull, JNull, JStr(<<SP, "Dev">>))
TieNode == Node("JobPosting", JNull, JNull, JNull, JNull, JStr(<<"Acme", TAG, "Dev">>))
TagOnlyNode == Node("JobPosting", JNull, JNull, JNull, JNull, JStr(<<TAG, SP>>))

DescNodes == {ShortNode, JobNode, TieNode, TagOnlyNode}

MaxNodes == 2

\* pages whose single ld+json script lists several JobPosting nodes
MultiNodeDocs ==
    {Doc(<<>>, <<>>, <<Script("list", n)>>, NoBlock, <<>>, <<>>) :
        n \in UNION {[1..k -> DescNodes] : k \in 2..MaxNodes}}

\* ld+json scripts that give no node: no content, content that is not JSON,
\* a JSON scalar, a list and a @graph that hold no object
MalformedScripts ==
    {Script("empty", <<>>), Script("invalid", <<>>), Script("scalar", <<>>),
     Script("list", <<NotADict>>), Script("graph", <<NotADict>>)}

GoodScripts == {Script("object", <<JobNode>>), Script("list", <<NotADict, BareJobNode>>)}

\* pages where a malformed script stands before, after or between scripts
\* that hold a JobPosting
MalformedDocs ==
    {Doc(<<>>, <<>>, s, NoBlock, <<>>, <<>>) :
        s \in UNION {{<<b, g>>, <<g, b>>, <<g, b, Script("object", <<ShortNode>>)>>} :
                        b \in MalformedScripts, g \in GoodScripts}}

\* a detail block whose header gives no title: its only line is SEO text
SeoBlock == Block(TRUE, TRUE, <<>>, <<>>, <<<<"Offres d'emploi">>>>, Lorem201)

\* pages whose og:title names a category, with and without a detail block
CategoryDocs ==
    {Doc(<<>>, <<Meta("og:title", <<"Categorie", SP, "Dev">>)>>, <<>>, b, <<>>, <<>>) :
        b \in {SeoBlock, NoBlock}}

Docs ==
    {Doc(t, m, s, b, x.targeted, x.visible) :
        t \in Titles, m \in MetaLists,
        s \in SeqUpTo(Scripts, MaxScripts), b \in Blocks, x \in Bodies}
    \cup MultiNodeDocs \cup MalformedDocs \cup CategoryDocs

\* ------------------------------------------------------------ extractors

OgProps == {"og:title", "og:description", "og:site_name"}

og_map(prop) ==
    CASE prop = "og:title" -> "titre_poste"
      [] prop = "og:description" -> "_og_description"
      [] prop = "og:site_name" -> "source"

\* variant of lines 294-297 without the test of line 296
OgMeta_overwrite(meta, data) ==
    IF meta.prop \in OgProps /\ meta.content # <<>>
    THEN Put(data, og_map(meta.prop), Strip(meta.content))
    ELSE data

\* one <meta> of the loop of _extract_opengraph
OgMeta(meta, data) ==
    IF meta.prop \in OgProps /\ meta.content # <<>> /\ ~Truthy(data, og_map(meta.prop))
    THEN Put(data, og_map(meta.prop), Strip(meta.content))
    ELSE data

RECURSIVE OgFold(_, _)
OgFold(metas, data) ==
    IF metas = <<>> THEN data ELSE OgFold(Tail(metas), OgMeta(Head(metas), data))

_extract_opengraph(soup, data) == OgFold(soup.metas, data)

RECURSIVE _as_text(_)
_as_text(value) ==
    CASE value.t = "null" -> <<>>
      [] value.t = "str" -> Strip(value.s)
      [] value.t = "dict" -> _as_text(value.name)

\* bool(value) of a JSON value
JTruthy(value) == value.t \in {"dict", "loc"} \/ (value.t = "str" /\ value.s # <<>>)

\* t == "JobPosting" or (isinstance(t, list) and "JobPosting" in t)
IsJobType(t) == t = "JobPosting" \/ t = "Thing,JobPosting"

\* variant of lines 332-333 without the test of the current value
NodeTitle_always(node, data) ==
    Put(data, "titre_poste", _as_text(node.title))

NodeTitle(node, data) ==
    IF ~Truthy(data, "titre_poste")
    THEN Put(data, "titre_poste", _as_text(node.title)) ELSE data

\* hiring = node.get("hiringOrganization") or {}
NodeCompany(node, data) ==
    LET hiring == IF JTruthy(node.hiringOrganization)
                  THEN node.hiringOrganization ELSE JDict(JNull)
    IN IF hiring.t = "dict" /\ ~Truthy(data, "entreprise")
       THEN Put(data, "entreprise", _as_text(hiring.name)) ELSE data

NodeLocation(node, data) ==
    IF node.jobLocation.t = "loc" /\ ~Truthy(data, "localisation")
    THEN Put(data, "localisation", _as_text(node.jobLocation.addressLocality))
    ELSE data

NodeContract(node, data) ==
    IF ~Truthy(data, "type_contrat")
    THEN Put(data, "type_contrat", _as_text(node.employmentType)) ELSE data

\* variant of line 357 with >= for >
NodeDescription_geq(node, data) ==
    LET new_desc == _strip_html(_as_text(node.description))
        current == Get(data, "texte_annonce")
    IN IF JTruthy(node.description) /\ new_desc # <<>>
          /\ (current = <<>> \/ TextLen(new_desc) >= TextLen(current))
       THEN Put(data, "texte_annonce", new_desc) ELSE data

\* richer wins: replace when there is none yet or the new one is longer
NodeDescription(node, data) ==
    LET new_desc == _strip_html(_as_text(node.description))
        current == Get(data, "texte_annonce")
    IN IF JTruthy(node.description) /\ new_desc # <<>>
          /\ (current = <<>> \/ TextLen(new_desc) > TextLen(current))
       THEN Put(data, "texte_annonce", new_desc) ELSE data

\* the body of the loop over the nodes of one script
JobNodeApply(node, data) ==
    IF ~node.isdict THEN data
    ELSE IF ~IsJobType(node.type) THEN data
    ELSE NodeDescription(node,
           NodeContract(node,
             NodeLocation(node,
               NodeCompany(node,
                 NodeTitle(node, Put(data, "_has_jobposting", TRUE))))))

RECURSIVE NodesFold(_, _)
NodesFold(nodes, data) ==
    IF nodes = <<>> THEN data
    ELSE NodesFold(Tail(nodes), JobNodeApply(Head(nodes), data))

\* json.loads raises, or the payload is neither a list nor a dict: skipped
ScriptNodes(script) ==
    IF script.kind \in {"object", "list", "graph"} THEN script.nodes ELSE <<>>

RECURSIVE ScriptsFold(_, _)
ScriptsFold(scripts, data) ==
    IF scripts = <<>> THEN data
    ELSE ScriptsFold(Tail(scripts), NodesFold(ScriptNodes(Head(scripts)), data))

\* variant of lines 304-319 that gives up the JSON-LD source when a script
\* does not yield nodes
_extract_json_ld_jobposting_abort(soup, data) ==
    IF \E i \in 1..Len(soup.scripts) :
          soup.scripts[i].kind \notin {"object", "list", "graph"}
    THEN data ELSE ScriptsFold(soup.scripts, data)

\* lines 300-358
_extract_json_ld_jobposting(soup, data) == ScriptsFold(soup.scripts, data)

\* -- structured-block heuristic (jobup)

DetailMinLen == 200
JobupDescMax == 8000
TargetedMax == 8000
VisibleMax == 5000

_is_seo(ln) ==
    \/ Contains(Lower(ln), "offres d'emploi")
    \/ Contains(Lower(ln), "categorie")
    \/ Contains(Lower(ln), "trouvees sur jobup")

\* re.search(r"\b(Geneve|Lausanne|...)\b", ln, flags=re.IGNORECASE)
IsCity(ln) == Contains(Lower(ln), "geneve")

\* the loop over raw_lines: the first line that is not SEO text is the title
\* candidate; the next line that is not SEO text ends the loop and is the
\* company candidate unless it names a city
RECURSIVE HeaderLoop(_, _)
HeaderLoop(lines, title_candidate) ==
    IF lines = <<>> THEN [title |-> title_candidate, company |-> <<>>]
    ELSE IF _is_seo(Head(lines)) THEN HeaderLoop(Tail(lines), title_candidate)
    ELSE IF title_candidate = <<>> THEN HeaderLoop(Tail(lines), Head(lines))
    ELSE [title |-> title_candidate,
          company |-> IF IsCity(Head(lines)) THEN <<>> ELSE Head(lines)]

\* re.split(r"\s{2,}|\s+-\s+", title_candidate)[0].strip(), when it splits
SplitTitle(t) ==
    LET seps == {i \in 1..Len(t) :
                   /\ t[i] = SP
                   /\ \/ (i < Len(t) /\ t[i + 1] = SP)
                      \/ \E k \in i..Len(t) - 2 :
                           /\ \A j \in i..k : t[j] = SP
                           /\ t[k + 1] = DASH
                           /\ t[k + 2] = SP}
    IN IF seps = {} THEN t
       ELSE Strip(SubSeq(t, 1, (CHOOSE i \in seps : \A j \in seps : i <= j) - 1))

\* steps 6 to 9 of _extract_jobup_detail_from_page on a block whose markers
\* were found
JobupLocation(b, data) ==
    IF b.loc # <<>> /\ ~Truthy(data, "localisation")
    THEN Put(data, "localisation", b.loc) ELSE data

JobupContract(b, data) ==
    IF b.contrat # <<>> /\ ~Truthy(data, "type_contrat")
    THEN Put(data, "type_contrat", b.contrat) ELSE data

JobupTitleCandidate(b) ==
    LET h == HeaderLoop(b.lines, <<>>)
    IN IF h.title # <<>> /\ h.company = <<>> THEN SplitTitle(h.title) ELSE h.title

JobupTitle(b, data) ==
    LET title_candidate == JobupTitleCandidate(b)
    IN IF title_candidate # <<>> /\ ~_is_seo(title_candidate)
       THEN Put(data, "titre_poste", title_candidate) ELSE data

JobupCompany(b, data) ==
    LET company_candidate == HeaderLoop(b.lines, <<>>).company
    IN IF company_candidate # <<>> /\ ~Truthy(data, "entreprise")
       THEN Put(data, "entreprise", company_candidate) ELSE data

JobupDescription(b, data) ==
    IF ~Truthy(data, "texte_annonce") /\ TextLen(b.desc) > DetailMinLen
    THEN Put(data, "texte_annonce", Truncate(b.desc, JobupDescMax)) ELSE data

JobupDetailFlag(data) ==
    LET titre == Lower(Strip(Get(data, "titre_poste")))
    IN IF /\ Truthy(data, "texte_annonce")
          /\ TextLen(Get(data, "texte_annonce")) > DetailMinLen
          /\ titre # <<>>
          /\ ~Contains(titre, "offres d'emploi")
       THEN Put(data, "_has_detail", TRUE) ELSE data

_extract_jobup_detail_from_page(soup, data) ==
    LET b == soup.jobup
    IN IF ~b.marker THEN data
       ELSE IF ~b.infos THEN data
       ELSE JobupDetailFlag(
              JobupDescription(b,
                JobupCompany(b,
                  JobupTitle(b,
                    JobupContract(b, JobupLocation(b, data))))))

\* -- classifier

listing_markers ==
    {"offres d'emploi", "offres emploi", "jobs", "job", "categorie", "recherche",
     "search", "result", "resultats"}

generic_markers == {"trouvez", "decouvrez", "postulez", "emploi", "jobup", "annonces"}

\* variant of line 534 that skips the _has_detail short-circuit
_looks_like_listing_or_shell_nodetail(soup, data) ==
    LET title == Lower(Strip(soup.title))
        og_desc == Lower(Get(data, "_og_description"))
    IN IF \E m \in listing_markers : Contains(title, m) THEN TRUE
       ELSE IF /\ soup.scripts # <<>>
               /\ ~data["_has_jobposting"]
               /\ og_desc # <<>>
               /\ Cardinality({m \in generic_markers : Contains(og_desc, m)}) >= 2
            THEN TRUE
       ELSE FALSE

\* lines 532-564
_looks_like_listing_or_shell(soup, data) ==
    LET title == Lower(Strip(soup.title))
        og_desc == Lower(Get(data, "_og_description"))
    IN IF data["_has_detail"] THEN FALSE
       ELSE IF \E m \in listing_markers : Contains(title, m) THEN TRUE
       ELSE IF /\ soup.scripts # <<>>
               /\ ~data["_has_jobposting"]
               /\ og_desc # <<>>
               /\ Cardinality({m \in generic_markers : Contains(og_desc, m)}) >= 2
            THEN TRUE
       ELSE FALSE

\* -- text fallbacks

_extract_targeted_job_text(soup) == Truncate(soup.targeted, TargetedMax)

_extract_visible_text(soup) == Truncate(soup.visible, VisibleMax)

\* ----------------------------------------------------------------- state

VARIABLES
    HAS_PLAYWRIGHT, \* whether the playwright import succeeded at load time
    mode,           \* which entry point runs: "requests" or "browser"
    pc,             \* where the running import call stands
    site,           \* the call site the running fetch or extraction returns to
    url,            \* the URL of the call (normalized once validated)
    attempt,        \* the loop counter of _fetch_html
    html,           \* the fetched document
    final_url,      \* the final URL the fetcher reported
    data,           \* the dict _parse_offer_html accumulates
    static_data,    \* import_offer_from_url's data: the record of the static pass
    result,         \* what the call returned or raised
    dumps,          \* the dump files written during the call, in order
    now,            \* the clock, in seconds since the call started
    n_static,       \* calls of _fetch_html during the call
    n_headless,     \* calls of _fetch_html_playwright during the call
    n_parse,        \* calls of _parse_offer_html during the call
    n_fetched,      \* fetches of the call that returned a document
    browser,        \* the Chromium process of the call: "none", "open", "closed"
    context,        \* its browser context: "none", "open", "closed"
    passes,         \* the extraction passes of the call that ended, in order
    form,           \* the offer form page: its widgets and where its handler stands
    candidatures,   \* the candidature table, by id
    lettres,        \* the lettre_motivation table
    call            \* the last service call: what it was, what it returned or raised

\* the variables of an import call
import_vars ==
    <<HAS_PLAYWRIGHT, mode, pc, site, url, attempt, html, final_url, data, static_data,
      result, dumps, now, n_static, n_headless, n_parse, n_fetched, browser, context,
      passes>>

\* the variables of the form page and of the database
others == <<form, candidatures, lettres, call>>

vars == <<import_vars, others>>

NoDoc == [none |-> TRUE]
NoData == [none |-> TRUE]
NoResult == [kind |-> "none"]
NoPath == [domain |-> <<>>, ts |-> 0]

\* a returned dict
Record(d) == [kind |-> "record", data |-> d]

\* a raised exception: its class, which message it carries, the HTTP status
\* and the dump path its message embeds (NoPath when it embeds none)
Error(class, msg, status, dump) ==
    [kind |-> "error", class |-> class, msg |-> msg, status |-> status, dump |-> dump]

UrlImportError(msg) == Error("UrlImportError", msg, 0, NoPath)

\* imports_debug/import_<domain>_<timestamp>.txt
DumpPath(u, ts) ==
    [domain |-> IF u.netloc = <<>> THEN <<"unknown">>
                ELSE [i \in 1..Len(u.netloc) |->
                        IF u.netloc[i] = ":" THEN "_" ELSE u.netloc[i]],
     ts |-> ts]

MaxAttempts == 3

\* ------------------------------------------------------------- form page

\* Optional[bool]: None is {}, a value b is {b}
None == {}
Some(b) == {b}

\* what the URL field may hold: nothing, blanks, a URL typed without its
\* scheme, a URL
UrlTexts == {"", " ", "jobup.ch/x", "https://jobup.ch/x"}

\* offer_form_page.py lines 44-54: the page once constructed (widgets created
\* at lines 183-199, then reset_form)
FormInit ==
    form = [pc |-> "idle",
            current_offer |-> FALSE,
            input_url |-> "",
            btn_prefill |-> TRUE,
            btn_prefill_browser |-> HAS_PLAYWRIGHT,
            btn_open_url |-> TRUE,
            btn_save |-> TRUE,
            btn_open_dump |-> FALSE,
            _busy_restore_prefill |-> None,
            _busy_restore_browser |-> None,
            info |-> "",
            at_start |-> None]

\* --------------------------------------------------------------- database

NoCall == [op |-> "none", raised |-> "none", ret |-> None]

MaxVersion == 2

Offres == {1, 2}

\* a row of lettre_motivation (models.py lines 199-239)
Lettre(offre_id, version, is_current) ==
    [offre_id |-> offre_id, version |-> version, is_current |-> is_current]

\* the constraint uq_lettre_offre_version and at most one current letter
\* for each offer
LettresConsistent(t) ==
    /\ \A a, b \in t : (a.offre_id = b.offre_id /\ a.version = b.version) => a = b
    /\ \A a, b \in t : (a.offre_id = b.offre_id /\ a.is_current /\ b.is_current) => a = b

\* the lettre_motivation tables a session may start from: whatever earlier
\* sessions left, within the constraints
LettreTables ==
    {t \in SUBSET {Lettre(o, v, c) : o \in Offres, v \in 1..MaxVersion, c \in BOOLEAN} :
        LettresConsistent(t)}

\* a new database (create_db.py)
DbInit ==
    /\ candidatures = <<>>
    /\ lettres = {}
    /\ call = NoCall

\* the state of the import service before any call
ImportInit ==
    /\ HAS_PLAYWRIGHT \in BOOLEAN
    /\ mode = "-"
    /\ pc = "idle"
    /\ site = "-"
    /\ url = EmptyUrl
    /\ attempt = 0
    /\ html = NoDoc
    /\ final_url = EmptyUrl
    /\ data = NoData
    /\ static_data = NoData
    /\ result = NoResult
    /\ dumps = <<>>
    /\ now = 1
    /\ n_static = 0
    /\ n_headless = 0
    /\ n_parse = 0
    /\ n_fetched = 0
    /\ browser = "none"
    /\ context = "none"
    /\ passes = <<>>

Init == ImportInit /\ FormInit /\ DbInit

\* ---------------------------------------------------------- orchestrator

\* variant of line 75 with the availability flag inverted
HandlerFallsBack_flag(fu, u) ==
    /\ ~HAS_PLAYWRIGHT
    /\ _domain_is_jobup(FinalOr(fu, u).netloc)
    /\ _is_probable_detail_url(FinalOr(fu, u))

\* line 75: the except branch goes on to the browser fetch
HandlerFallsBack(fu, u) ==
    /\ HAS_PLAYWRIGHT
    /\ _domain_is_jobup(FinalOr(fu, u).netloc)
    /\ _is_probable_detail_url(FinalOr(fu, u))

\* variant of lines 81-82 that forgets the detail signal
RetryWanted_signal(d, u) ==
    /\ HAS_PLAYWRIGHT
    /\ _domain_is_jobup(d["source_site"])
    /\ _is_probable_detail_url(FinalOr(d["source_url"], u))
    /\ ~d["_has_jobposting"]

\* variant of lines 81-82 that retries on any domain
RetryWanted_anydomain(d, u) ==
    /\ HAS_PLAYWRIGHT
    /\ _is_probable_detail_url(FinalOr(d["source_url"], u))
    /\ ~d["_has_detail"]
    /\ ~d["_has_jobposting"]

\* lines 81-82: the static record calls for a retry in the browser
RetryWanted(d, u) ==
    /\ HAS_PLAYWRIGHT
    /\ _domain_is_jobup(d["source_site"])
    /\ _is_probable_detail_url(FinalOr(d["source_url"], u))
    /\ ~d["_has_detail"]
    /\ ~d["_has_jobposting"]

Next_(p, s, r, sd) == [pc |-> p, site |-> s, result |-> r, static_data |-> sd]

\* what follows `return d` of _parse_offer_html at the current call site
AfterReturn(d) ==
    IF site = "L72"
    THEN IF RetryWanted(d, url)
         THEN Next_("pw_fetch", "L84", NoResult, d)
         ELSE Next_("done", "-", Record(d), NoData)
    ELSE Next_("done", "-", Record(d), NoData)

\* variant of lines 86-88 that tries the browser again instead of returning
\* the static record
AfterRaise_again(e) ==
    CASE site = "L68" -> Next_("done", "-", e, NoData)
      [] site = "L72" ->
           IF e.class = "UrlImportError" /\ HandlerFallsBack(final_url, url)
           THEN Next_("pw_fetch", "L76", NoResult, NoData)
           ELSE Next_("done", "-", e, NoData)
      [] site \in {"L84", "L85"} -> Next_("pw_fetch", "L84", NoResult, static_data)
      [] OTHER -> Next_("done", "-", e, NoData)

\* variant of lines 86-88 that lets the exception of the retry propagate
AfterRaise_propagate(e) ==
    CASE site = "L72" ->
           IF e.class = "UrlImportError" /\ HandlerFallsBack(final_url, url)
           THEN Next_("pw_fetch", "L76", NoResult, NoData)
           ELSE Next_("done", "-", e, NoData)
      [] OTHER -> Next_("done", "-", e, NoData)

\* what follows an exception e raised by the fetch or the extraction running
\* at the current call site
AfterRaise(e) ==
    CASE site = "L68" -> Next_("done", "-", e, NoData)
      [] site = "L72" ->
           IF e.class = "UrlImportError" /\ HandlerFallsBack(final_url, url)
           THEN Next_("pw_fetch", "L76", NoResult, NoData)
           ELSE Next_("done", "-", e, NoData)
      [] site \in {"L84", "L85"} -> Next_("done", "-", Record(static_data), NoData)
      [] OTHER -> Next_("done", "-", e, NoData)

Goto(n) ==
    /\ pc' = n.pc
    /\ site' = n.site
    /\ result' = n.result
    /\ static_data' = n.static_data

\* the locals of a finished fetch or extraction are dropped
DropLocals ==
    /\ html' = NoDoc
    /\ final_url' = EmptyUrl
    /\ data' = NoData
    /\ attempt' = 0

NewCall ==
    /\ pc \in {"idle", "done"}
    /\ dumps' = <<>>
    /\ now' = 1
    /\ passes' = <<>>
    /\ n_static' = 0
    /\ n_headless' = 0
    /\ n_parse' = 0
    /\ n_fetched' = 0
    /\ browser' = "none"
    /\ context' = "none"
    /\ DropLocals
    /\ UNCHANGED <<others, HAS_PLAYWRIGHT>>

\* variant of lines 61-63 that tests the scheme only
ImportStart_scheme(u) ==
    /\ NewCall
    /\ mode' = "requests"
    /\ IF u = EmptyUrl
       THEN /\ url' = u
            /\ Goto(Next_("done", "-", UrlImportError("URL vide"), NoData))
       ELSE IF u.scheme = ""
       THEN /\ url' = u
            /\ Goto(Next_("done", "-", UrlImportError("URL invalide"), NoData))
       ELSE /\ url' = Normalize(u)
            /\ Goto(Next_("fetch", "L68", NoResult, NoData))

\* import_offer_from_url, lines 57-68: up to the call of _fetch_html
ImportStart(u) ==
    /\ NewCall
    /\ mode' = "requests"
    /\ IF u = EmptyUrl
       THEN /\ url' = u
            /\ Goto(Next_("done", "-", UrlImportError("URL vide"), NoData))
       ELSE IF u.scheme = "" \/ u.netloc = <<>>
       THEN /\ url' = u
            /\ Goto(Next_("done", "-", UrlImportError("URL invalide"), NoData))
       ELSE /\ url' = Normalize(u)
            /\ Goto(Next_("fetch", "L68", NoResult, NoData))

\* import_offer_from_url_browser, lines 98-114: up to the call of
\* _fetch_html_playwright
BrowserStart(u) ==
    /\ NewCall
    /\ mode' = "browser"
    /\ IF ~HAS_PLAYWRIGHT
       THEN /\ url' = u
            /\ Goto(Next_("done", "-", UrlImportError("Playwright n'est pas installe"), NoData))
       ELSE IF u = EmptyUrl
       THEN /\ url' = u
            /\ Goto(Next_("done", "-", UrlImportError("URL vide"), NoData))
       ELSE IF u.scheme = "" \/ u.netloc = <<>>
       THEN /\ url' = u
            /\ Goto(Next_("done", "-", UrlImportError("URL invalide"), NoData))
       ELSE /\ url' = Normalize(u)
            /\ Goto(Next_("pw_fetch", "L114", NoResult, NoData))

\* ---------------------------------------------------------------- fetch

\* _fetch_html: one GET of the loop that succeeds (lines 209-229)
GetOk(doc, fu) ==
    /\ pc = "fetch"
    /\ n_static' = IF attempt = 0 THEN n_static + 1 ELSE n_static
    /\ html' = doc
    /\ final_url' = fu
    /\ pc' = "parse"
    /\ site' = "L72"
    /\ attempt' = 0
    /\ n_fetched' = n_fetched + 1
    /\ UNCHANGED <<others, HAS_PLAYWRIGHT, browser, context, mode, n_parse, url, data, static_data, result, dumps, now,
                   n_headless, passes>>

\* variant of lines 217-222 that lets raise_for_status handle 403 and 429: the
\* status ends in the generic handler of lines 233-238
GetBlocked_generic(status) ==
    /\ pc = "fetch"
    /\ n_static' = IF attempt = 0 THEN n_static + 1 ELSE n_static
    /\ Goto(AfterRaise(UrlImportError("Impossible de recuperer la page")))
    /\ DropLocals
    /\ UNCHANGED <<others, HAS_PLAYWRIGHT, browser, context, n_fetched, mode, n_parse, url, dumps, now, n_headless, passes>>

\* one GET answered 403 or 429 (lines 217-222, 230-232): raised at once
GetBlocked(status) ==
    /\ pc = "fetch"
    /\ n_static' = IF attempt = 0 THEN n_static + 1 ELSE n_static
    /\ Goto(AfterRaise(Error("UrlImportError", "Acces bloque", status, NoPath)))
    /\ DropLocals
    /\ UNCHANGED <<others, HAS_PLAYWRIGHT, browser, context, n_fetched, mode, n_parse, url, dumps, now, n_headless, passes>>

\* variant of line 207 whose loop runs once more
GetFails_more ==
    /\ pc = "fetch"
    /\ n_static' = IF attempt = 0 THEN n_static + 1 ELSE n_static
    /\ IF attempt < MaxAttempts
       THEN /\ attempt' = attempt + 1
            /\ UNCHANGED <<pc, site, result, static_data, html, final_url, data>>
       ELSE /\ Goto(AfterRaise(UrlImportError("Impossible de recuperer la page")))
            /\ DropLocals
    /\ UNCHANGED <<others, HAS_PLAYWRIGHT, browser, context, n_fetched, mode, n_parse, url, dumps, now, n_headless, passes>>

\* one GET that fails otherwise (lines 233-238): next attempt, or the error
\* after the last one
GetFails ==
    /\ pc = "fetch"
    /\ n_static' = IF attempt = 0 THEN n_static + 1 ELSE n_static
    /\ IF attempt + 1 < MaxAttempts
       THEN /\ attempt' = attempt + 1
            /\ UNCHANGED <<pc, site, result, static_data, html, final_url, data>>
       ELSE /\ Goto(AfterRaise(UrlImportError("Impossible de recuperer la page")))
            /\ DropLocals
    /\ UNCHANGED <<others, HAS_PLAYWRIGHT, browser, context, n_fetched, mode, n_parse, url, dumps, now, n_headless, passes>>

\* the call site of _parse_offer_html that follows a browser fetch
ParseSiteAfter(s) ==
    CASE s = "L76" -> "L77"
      [] s = "L84" -> "L85"
      [] s = "L114" -> "L115"

\* the positions of a call inside _fetch_html_playwright
PwPcs == {"pw_fetch", "pw_launched", "pw_page"}

\* lines 262-263: Playwright is started and Chromium launched
PwLaunch ==
    /\ pc = "pw_fetch"
    /\ browser' = "open"
    /\ pc' = "pw_launched"
    /\ UNCHANGED <<others, HAS_PLAYWRIGHT, context, n_fetched, mode, n_parse, site, url, attempt, html,
                   final_url, data, static_data, result, dumps, now, n_static,
                   n_headless, passes>>

\* lines 264-266: the context and its page are created
PwNewContext ==
    /\ pc = "pw_launched"
    /\ context' = "open"
    /\ pc' = "pw_page"
    /\ UNCHANGED <<others, HAS_PLAYWRIGHT, browser, n_fetched, mode, n_parse, site, url, attempt, html,
                   final_url, data, static_data, result, dumps, now, n_static,
                   n_headless, passes>>

\* variant of line 262 without the context manager: nothing is stopped when
\* the block is left
WithExit_keep(r) == r

\* line 262, leaving the block of `with sync_playwright() as p`: Playwright is
\* stopped, which ends what it had launched
WithExit(r) == IF r = "open" THEN "closed" ELSE r

\* lines 267-274: the page is loaded and read, context.close() and
\* browser.close() run, the block is left and the rendered page returned.  The
\* network-idle wait and wait_for_timeout(500) take a second at least, so the
\* clock shows a later second afterwards.
PlaywrightOk(doc, fu) ==
    /\ pc = "pw_page"
    /\ n_headless' = n_headless + 1
    /\ html' = doc
    /\ final_url' = fu
    /\ now' = now + 1
    /\ context' = WithExit("closed")
    /\ browser' = WithExit("closed")
    /\ pc' = "parse"
    /\ site' = ParseSiteAfter(site)
    /\ n_fetched' = n_fetched + 1
    /\ UNCHANGED <<others, HAS_PLAYWRIGHT, mode, n_parse, url, attempt, data, static_data, result, dumps,
                   n_static, passes>>

\* variant without the except clause of lines 275-276: the exception of the
\* engine leaves the function as it is
PlaywrightFails_raw ==
    /\ pc \in PwPcs
    /\ n_headless' = n_headless + 1
    /\ context' = WithExit(context)
    /\ browser' = WithExit(browser)
    /\ Goto(AfterRaise(Error("TimeoutError", "Timeout 30000ms exceeded", 0, NoPath)))
    /\ DropLocals
    /\ UNCHANGED <<others, HAS_PLAYWRIGHT, n_fetched, mode, n_parse, url, dumps, now, n_static, passes>>

\* an exception inside the try of line 261 (Playwright does not start, the
\* launch fails, the navigation times out, a close fails): the block of line
\* 262 is left and lines 275-276 raise
PlaywrightFails ==
    /\ pc \in PwPcs
    /\ n_headless' = n_headless + 1
    /\ context' = WithExit(context)
    /\ browser' = WithExit(browser)
    /\ Goto(AfterRaise(UrlImportError("Impossible de recuperer la page via navigateur")))
    /\ DropLocals
    /\ UNCHANGED <<others, HAS_PLAYWRIGHT, n_fetched, mode, n_parse, url, dumps, now, n_static, passes>>

\* ----------------------------------------------------- _parse_offer_html

\* variant of lines 129-132 that takes the provenance from the requested URL
ParseStart_requested ==
    /\ pc = "parse"
    /\ data' = [_has_jobposting |-> FALSE,
                _has_detail |-> FALSE,
                url |-> url,
                source_url |-> url,
                source_site |-> NetlocLower(url.netloc),
                source |-> _humanize_domain(NetlocLower(url.netloc))]
    /\ pc' = "og"
    /\ n_parse' = n_parse + 1
    /\ UNCHANGED <<others, HAS_PLAYWRIGHT, browser, context, n_fetched, mode, site, url, attempt, html, final_url, static_data,
                   result, dumps, now, n_static, n_headless, passes>>

\* lines 119-132
ParseStart ==
    /\ pc = "parse"
    /\ data' = [_has_jobposting |-> FALSE,
                _has_detail |-> FALSE,
                url |-> url,
                source_url |-> FinalOr(final_url, url),
                source_site |-> NetlocLower(FinalOr(final_url, url).netloc),
                source |-> _humanize_domain(NetlocLower(FinalOr(final_url, url).netloc))]
    /\ pc' = "og"
    /\ n_parse' = n_parse + 1
    /\ UNCHANGED <<others, HAS_PLAYWRIGHT, browser, context, n_fetched, mode, site, url, attempt, html, final_url, static_data,
                   result, dumps, now, n_static, n_headless, passes>>

\* line 135
ExtractOpenGraph ==
    /\ pc = "og"
    /\ data' = _extract_opengraph(html, data)
    /\ pc' = "jsonld"
    /\ UNCHANGED <<others, HAS_PLAYWRIGHT, browser, context, n_fetched, mode, n_parse, site, url, attempt, html, final_url, static_data,
                   result, dumps, now, n_static, n_headless, passes>>

\* line 138
ExtractJsonLd ==
    /\ pc = "jsonld"
    /\ data' = _extract_json_ld_jobposting(html, data)
    /\ pc' = "jobup"
    /\ UNCHANGED <<others, HAS_PLAYWRIGHT, browser, context, n_fetched, mode, n_parse, site, url, attempt, html, final_url, static_data,
                   result, dumps, now, n_static, n_headless, passes>>

\* lines 141-142
ExtractJobup ==
    /\ pc = "jobup"
    /\ data' = IF _domain_is_jobup(data["source_site"])
               THEN _extract_jobup_detail_from_page(html, data)
               ELSE data
    /\ pc' = "gate"
    /\ UNCHANGED <<others, HAS_PLAYWRIGHT, browser, context, n_fetched, mode, n_parse, site, url, attempt, html, final_url, static_data,
                   result, dumps, now, n_static, n_headless, passes>>

\* line 146
Rejected(soup, d) ==
    /\ ~d["_has_jobposting"]
    /\ ~d["_has_detail"]
    /\ _looks_like_listing_or_shell(soup, d)

\* one extraction pass that ended: the flags at the trust gate and how it ended
Pass(d, soup, out) ==
    [has_jobposting |-> d["_has_jobposting"], has_detail |-> d["_has_detail"],
     flagged |-> _looks_like_listing_or_shell(soup, d),
     source_url |-> d["source_url"], out |-> out]


\* lines 147-161: the dump is written, the error carries its path
GateReject ==
    /\ pc = "gate"
    /\ Rejected(html, data)
    /\ LET dump_path == DumpPath(url, now)
           e == Error("UrlImportError", "pas une page detail", 0, dump_path)
       IN /\ dumps' = Append(dumps, dump_path)
          /\ passes' = Append(passes, Pass(data, html, e))
          /\ Goto(AfterRaise(e))
    /\ DropLocals
    /\ UNCHANGED <<others, HAS_PLAYWRIGHT, browser, context, n_fetched, mode, n_parse, url, now, n_static, n_headless>>

\* lines 147-154 when _write_import_dump_txt raises (mkdir, open or write
\* fails): nothing catches it in _parse_offer_html
GateRejectDumpFails ==
    /\ pc = "gate"
    /\ Rejected(html, data)
    /\ LET e == Error("OSError", "dump", 0, NoPath)
       IN /\ passes' = Append(passes, Pass(data, html, e))
          /\ Goto(AfterRaise(e))
    /\ DropLocals
    /\ UNCHANGED <<others, HAS_PLAYWRIGHT, browser, context, n_fetched, mode, n_parse, url, dumps, now, n_static, n_headless>>

\* lines 164-167
FillFromOg(d) ==
    IF ~Truthy(d, "texte_annonce") /\ Strip(Get(d, "_og_description")) # <<>>
    THEN Put(d, "texte_annonce", Strip(Get(d, "_og_description"))) ELSE d

\* lines 170-172
FillTitle(soup, d) ==
    IF ~Truthy(d, "titre_poste")
    THEN Put(d, "titre_poste", _clean_title(Strip(soup.title))) ELSE d

\* lines 174-176
FillText(soup, d) ==
    IF ~Truthy(d, "texte_annonce")
    THEN Put(d, "texte_annonce",
             IF _extract_targeted_job_text(soup) # <<>>
             THEN _extract_targeted_job_text(soup)
             ELSE _extract_visible_text(soup))
    ELSE d

\* variant of lines 163-176 that reads the page text before the OpenGraph
\* description
FallbackFill_text(soup, d) == FillFromOg(FillTitle(soup, FillText(soup, d)))

FallbackFill(soup, d) == FillText(soup, FillTitle(soup, FillFromOg(d)))

\* the page passes the trust gate (line 146 false) and the fallbacks of
\* lines 163-176 fill what is still empty
GatePass ==
    /\ pc = "gate"
    /\ ~Rejected(html, data)
    /\ data' = FallbackFill(html, data)
    /\ pc' = "dump"
    /\ UNCHANGED <<others, HAS_PLAYWRIGHT, browser, context, n_fetched, mode, n_parse, site, url, attempt, html, final_url, static_data,
                   result, dumps, now, n_static, n_headless, passes>>

\* lines 178-188: the dump is written and the record returned
FinalDump ==
    /\ pc = "dump"
    /\ LET dump_path == DumpPath(url, now)
           d == Put(data, "_dump_path", dump_path)
       IN /\ dumps' = Append(dumps, dump_path)
          /\ passes' = Append(passes, Pass(data, html, Record(d)))
          /\ Goto(AfterReturn(d))
    /\ DropLocals
    /\ UNCHANGED <<others, HAS_PLAYWRIGHT, browser, context, n_fetched, mode, n_parse, url, now, n_static, n_headless>>

\* lines 178-185 when _write_import_dump_txt raises
FinalDumpFails ==
    /\ pc = "dump"
    /\ LET e == Error("OSError", "dump", 0, NoPath)
       IN /\ passes' = Append(passes, Pass(data, html, e))
          /\ Goto(AfterRaise(e))
    /\ DropLocals
    /\ UNCHANGED <<others, HAS_PLAYWRIGHT, browser, context, n_fetched, mode, n_parse, url, dumps, now, n_static, n_headless>>

\* ------------------------------------------------------------------ spec

\* the documents the browser may render: the pages without <meta> tags
RenderedDocs == {d \in Docs : d.metas = <<>>}

Next ==
    \/ \E u \in InputUrls : ImportStart(u)
    \/ \E u \in InputUrls : BrowserStart(u)
    \/ \E doc \in Docs, fu \in {url} \cup RedirectTargets : GetOk(doc, fu)
    \/ \E status \in {403, 429} : GetBlocked(status)
    \/ GetFails
    \/ \E doc \in RenderedDocs, fu \in {url} \cup RedirectTargets :
         PlaywrightOk(doc, fu)
    \/ PlaywrightFails
    \/ PwLaunch
    \/ PwNewContext
    \/ ParseStart
    \/ ExtractOpenGraph
    \/ ExtractJsonLd
    \/ ExtractJobup
    \/ GatePass
    \/ GateReject
    \/ GateRejectDumpFails
    \/ FinalDump
    \/ FinalDumpFails

Spec == Init /\ [][Next]_vars


\* ------------------------------------------------------------- form page

\* str.strip() of the text of the URL field
StripText(t) == IF t = " " THEN "" ELSE t

\* lines 348-350, 402-404: "https://" is put before a URL typed without scheme
WithScheme(t) == IF t = "jobup.ch/x" THEN "https://jobup.ch/x" ELSE t

\* b when the optional holds nothing, its value otherwise
OrElse(opt, b) == IF opt = None THEN b ELSE CHOOSE x \in opt : TRUE

\* _set_busy, lines 277-305
_set_busy(f, busy) ==
    IF busy
    THEN [f EXCEPT
            !._busy_restore_prefill = IF @ = None THEN Some(f.btn_prefill) ELSE @,
            !._busy_restore_browser = IF @ = None THEN Some(f.btn_prefill_browser) ELSE @,
            !.btn_prefill = FALSE,
            !.btn_prefill_browser = FALSE,
            !.btn_open_url = FALSE,
            !.btn_save = FALSE]
    ELSE [f EXCEPT
            !.btn_prefill = OrElse(f._busy_restore_prefill, @),
            !.btn_prefill_browser = OrElse(f._busy_restore_browser, @),
            !._busy_restore_prefill = None,
            !._busy_restore_browser = None,
            !.btn_open_url = TRUE,
            !.btn_save = TRUE]

\* the database and the import service are left alone by the page
FormFrame == UNCHANGED <<import_vars, candidatures, lettres, call>>

\* the user edits the URL field while the page waits for events
EditUrl(t) ==
    /\ form.pc = "idle"
    /\ form' = [form EXCEPT !.input_url = t]
    /\ FormFrame

\* reset_form, lines 60-81
reset_form ==
    /\ form.pc = "idle"
    /\ form' = [form EXCEPT !.current_offer = FALSE,
                            !.input_url = "",
                            !.info = "",
                            !.btn_open_dump = FALSE,
                            !.btn_prefill = TRUE,
                            !.btn_prefill_browser = HAS_PLAYWRIGHT]
    /\ FormFrame

\* load_offer, lines 83-99
load_offer(t) ==
    /\ form.pc = "idle"
    /\ form' = [form EXCEPT !.current_offer = TRUE,
                            !.btn_prefill = FALSE,
                            !.btn_prefill_browser = FALSE,
                            !.input_url = t,
                            !.info = ""]
    /\ FormFrame

\* lines 342-353 and 389-408: a prefill handler up to the call of the import
StartImport(kind) ==
    LET u == StripText(form.input_url)
    IN IF u = ""
       THEN form' = [form EXCEPT !.info = "error"]
       ELSE IF kind = "browser" /\ ~HAS_PLAYWRIGHT
       THEN form' = [form EXCEPT !.info = "error"]
       ELSE form' = [_set_busy([form EXCEPT !.input_url = WithScheme(u)], TRUE)
                        EXCEPT !.info = "info",
                               !.pc = kind,
                               !.at_start = Some([prefill |-> form.btn_prefill,
                                                  browser |-> form.btn_prefill_browser])]

\* _on_prefill_requests, lines 342-353: the click on "Pre-remplir"
_on_prefill_requests ==
    /\ form.pc = "idle" /\ form.btn_prefill
    /\ StartImport("requests")
    /\ FormFrame

\* _on_prefill_browser, lines 389-408: the click on "Pre-remplir (navigateur)"
_on_prefill_browser ==
    /\ form.pc = "idle" /\ form.btn_prefill_browser
    /\ StartImport("browser")
    /\ FormFrame

\* set_prefill_data, lines 101-124, on a record with or without a _dump_path
set_prefill_data(f, dumped) == [f EXCEPT !.btn_open_dump = dumped, !.info = "success"]

\* lines 386-387 and 421-422: the import returned its record
ImportReturned(dumped) ==
    /\ form.pc \in {"requests", "browser"}
    /\ form' = [_set_busy(set_prefill_data(form, dumped), FALSE) EXCEPT !.pc = "idle"]
    /\ FormFrame

\* lines 354-356, 381-382, 410-412, 416-417: the import raised, and
\* set_import_error (lines 126-128) sets the message, then calls
\* self._extract_dump_path_from_error, a method the class does not have: the
\* AttributeError leaves the handler before _set_busy(False)
ImportRaised ==
    /\ form.pc \in {"requests", "browser"}
    /\ form' = [form EXCEPT !.info = "error", !.pc = "idle"]
    /\ FormFrame

NextForm ==
    \/ \E t \in UrlTexts : EditUrl(t)
    \/ reset_form
    \/ \E t \in UrlTexts : load_offer(t)
    \/ _on_prefill_requests
    \/ _on_prefill_browser
    \/ \E dumped \in BOOLEAN : ImportReturned(dumped)
    \/ ImportRaised

SpecForm == Init /\ [][NextForm]_vars


\* ------------------------------------------------------------ candidatures

MaxCandidatures == 2

\* the ids of the rows, and one id more that no row ever has
CandIds == 1..(MaxCandidatures + 1)

Statuts == {"a_preparer", "envoyee"}
Dates == {"2026-01-15", "today"}
Texts == {"", "x"}

\* an Optional[...] field: None, or one of the values
Optional(S) == {None} \cup {Some(x) : x \in S}

\* CandidatureCreateData, lines 31-39
CandidatureCreateData ==
    [statut : Statuts, date_envoi : Optional(Dates), notes : Texts, chemin_lettre : Texts]

\* CandidatureUpdateData, lines 42-49
CandidatureUpdateData ==
    [statut : Optional(Statuts), date_envoi : Optional(Dates),
     notes : Optional(Texts), chemin_lettre : Optional(Texts)]

\* the value of an Optional that is not None
The(opt) == CHOOSE x \in opt : TRUE

\* get_candidature, lines 63-65: whether a row has the id
Known(cand_id) == cand_id \in DOMAIN candidatures

\* the letters and the pages are left alone by the candidature service
CandFrame == UNCHANGED <<import_vars, form, lettres>>

\* lines 93-94, 114-115: raise ValueError, nothing written
Introuvable(op) ==
    /\ call' = [op |-> op, raised |-> "ValueError", ret |-> None]
    /\ UNCHANGED candidatures

\* create_candidature, lines 72-84
create_candidature(upd) ==
    /\ Len(candidatures) < MaxCandidatures
    /\ candidatures' = Append(candidatures, upd)
    /\ call' = [op |-> "create_candidature", raised |-> "none",
                ret |-> Some(Len(candidatures) + 1)]
    /\ CandFrame

\* lines 96-104 of update_candidature: the row once the fields are written
Updated(cand, upd) ==
    [statut |-> IF upd.statut # None THEN The(upd.statut) ELSE cand.statut,
     date_envoi |-> IF upd.date_envoi # None \/ upd.date_envoi = None
                    THEN upd.date_envoi ELSE cand.date_envoi,
     notes |-> IF upd.notes # None THEN The(upd.notes) ELSE cand.notes,
     chemin_lettre |-> IF upd.chemin_lettre # None THEN The(upd.chemin_lettre)
                       ELSE cand.chemin_lettre]

\* update_candidature, lines 87-108
update_candidature(cand_id, upd) ==
    /\ IF ~Known(cand_id)
       THEN Introuvable("update_candidature")
       ELSE /\ candidatures' = [candidatures EXCEPT ![cand_id] = Updated(@, upd)]
            /\ call' = [op |-> "update_candidature", raised |-> "none",
                        ret |-> Some(cand_id)]
    /\ CandFrame

\* mark_sent, lines 111-121
mark_sent(cand_id) ==
    /\ IF ~Known(cand_id)
       THEN Introuvable("mark_sent")
       ELSE /\ candidatures' = [candidatures EXCEPT
                                   ![cand_id].statut = "envoyee",
                                   ![cand_id].date_envoi = Some("today")]
            /\ call' = [op |-> "mark_sent", raised |-> "none", ret |-> Some(cand_id)]
    /\ CandFrame

NextCand ==
    \/ \E upd \in CandidatureCreateData : create_candidature(upd)
    \/ \E cand_id \in CandIds, upd \in CandidatureUpdateData :
          update_candidature(cand_id, upd)
    \/ \E cand_id \in CandIds : mark_sent(cand_id)

SpecCand == Init /\ [][NextCand]_vars

\* ----------------------------------------------------------------- letters

\* the letters and the calls are the only thing _get_or_create_current_lettre
\* touches
LettreFrame == UNCHANGED <<import_vars, form, candidatures>>

\* lines 298-303 and 307-312: the letters of an offer, the current ones first
LettresOf(offre_id) == {l \in lettres : l.offre_id = offre_id}
CurrentOf(offre_id) == {l \in LettresOf(offre_id) : l.is_current}

\* order_by(version.desc()).first() on a set of letters that is not empty
LastVersion(ls) == CHOOSE l \in ls : \A k \in ls : k.version <= l.version

\* a first version whatever the offer holds
next_version_first(offre_id) == 1

\* line 313
next_version(offre_id) ==
    IF LettresOf(offre_id) # {} THEN LastVersion(LettresOf(offre_id)).version + 1 ELSE 1

\* _get_or_create_current_lettre, lines 289-323
_get_or_create_current_lettre(offre_id) ==
    /\ IF CurrentOf(offre_id) # {}
       THEN /\ call' = [op |-> "_get_or_create_current_lettre", raised |-> "none",
                        ret |-> Some(LastVersion(CurrentOf(offre_id)))]
            /\ UNCHANGED lettres
       ELSE /\ next_version(offre_id) <= MaxVersion
            /\ lettres' = lettres \cup {Lettre(offre_id, next_version(offre_id), TRUE)}
            /\ call' = [op |-> "_get_or_create_current_lettre", raised |-> "none",
                        ret |-> Some(Lettre(offre_id, next_version(offre_id), TRUE))]
    /\ LettreFrame

NextLettres == \E offre_id \in Offres : _get_or_create_current_lettre(offre_id)

\* the database the window is opened on: any table the schema and the
\* versioning allow, the empty one included
InitLettres ==
    /\ ImportInit
    /\ FormInit
    /\ candidatures = <<>>
    /\ lettres \in LettreTables
    /\ call = NoCall

SpecLettres == InitLettres /\ [][NextLettres]_vars

\* ----------------------------------------------------------- properties

TextFields ==
    {"source_site", "source", "titre_poste", "entreprise", "localisation",
     "type_contrat", "texte_annonce"}

HeuristicFields ==
    {"titre_poste", "entreprise", "localisation", "type_contrat", "texte_annonce"}

\* the unsupported-page error of the trust gate
Unsupported(out) ==
    out.kind = "error" /\ out.class = "UrlImportError" /\ out.msg = "pas une page detail"

FetchFailure(out) ==
    /\ out.kind = "error"
    /\ out.msg \in {"Acces bloque", "Impossible de recuperer la page"}

\* the messages that advise the browser mode (lines 219-221, 156-160)
SuggestsBrowser(msg) == msg \in {"Acces bloque", "pas une page detail"}

BrowserFailure(out) ==
    out.kind = "error" /\ out.msg = "Impossible de recuperer la page via navigateur"

\* C1: _extract_jobup_detail_from_page never changes titre_poste, entreprise,
\* localisation, type_contrat or texte_annonce when the field already holds a
\* non-empty value on entry.
C1_SetIfAbsent ==
    [][pc = "jobup" =>
         \A k \in HeuristicFields : Truthy(data, k) => Get(data', k) = Get(data, k)]_vars

\* C2: every recognized field of the record under construction and of the
\* returned record is either absent or a non-empty, trimmed string.
C2_FieldsAbsentOrNonEmpty ==
    LET FieldsOk(d) ==
            /\ \A k \in TextFields \cap DOMAIN d : d[k] # <<>> /\ Strip(d[k]) = d[k]
            /\ \A k \in {"url", "source_url"} \cap DOMAIN d : d[k] # EmptyUrl
    IN /\ pc \in {"og", "jsonld", "jobup", "gate", "dump"} => FieldsOk(data)
       /\ result.kind = "record" => FieldsOk(result.data)

\* C3: when the static fetch fails while the headless fetcher is available and
\* the URL's domain is jobup.ch, import_offer_from_url goes on to the headless
\* fetch instead of raising the fetch error; otherwise the error propagates.
C3_FetchFailureFallsBack ==
    (pc = "done" /\ mode = "requests" /\ n_static = 1 /\ FetchFailure(result)) =>
        ~(HAS_PLAYWRIGHT /\ _domain_is_jobup(url.netloc))

\* C4 as stated: on a jobup.ch URL with the headless fetcher available, a
\* static page without JobPosting signal that the classifier flags is
\* discarded, the headless fetch is made and the outcome of the call is that
\* of extracting the rendered document.
C4_FlaggedPageRefetched ==
    (/\ pc = "done" /\ mode = "requests" /\ HAS_PLAYWRIGHT
     /\ _domain_is_jobup(url.netloc)
     /\ Len(passes) >= 1
     /\ ~passes[1].has_jobposting /\ passes[1].flagged
     /\ Unsupported(passes[1].out))
    => /\ n_headless = 1
       /\ Len(passes) = 2 => result = passes[2].out

\* C4, amended: with the headless fetcher available, when the static pass ends
\* with the unsupported-page error, the headless fetch is made exactly when the
\* final URL of the static fetch is on jobup.ch and looks like a detail URL;
\* the outcome of the call is then that of the headless fetch and of the
\* extraction of the rendered document, and otherwise the unsupported-page
\* error of the static pass.
C4_RejectedDetailPageRefetched ==
    (/\ pc = "done" /\ mode = "requests" /\ HAS_PLAYWRIGHT
     /\ Len(passes) >= 1
     /\ Unsupported(passes[1].out))
    => IF /\ _domain_is_jobup(passes[1].source_url.netloc)
          /\ _is_probable_detail_url(passes[1].source_url)
       THEN /\ n_headless = 1
            /\ IF Len(passes) = 2 THEN result = passes[2].out
               ELSE BrowserFailure(result)
       ELSE /\ n_headless = 0
            /\ result = passes[1].out

\* C4: a call whose static pass was rejected and whose rendered page gave the
\* record
C4_Witness ==
    /\ pc = "done" /\ mode = "requests"
    /\ Len(passes) = 2
    /\ Unsupported(passes[1].out)
    /\ result.kind = "record"
    /\ result = passes[2].out

\* C5 as stated: when the static page carries a JobPosting signal or is not
\* flagged by the classifier, no headless fetch is made and the returned
\* record is the one extracted from the static page.
C5_StaticRecordKept ==
    (/\ pc = "done" /\ mode = "requests"
     /\ Len(passes) >= 1
     /\ (passes[1].has_jobposting \/ ~passes[1].flagged))
    => /\ n_headless = 0
       /\ result = passes[1].out

\* C5, amended: when the static page carries a JobPosting signal, or is not
\* flagged and one of: it carries the detail signal, the headless fetcher is
\* unavailable, the final URL is not on jobup.ch, the final URL does not look
\* like a detail URL, then no headless fetch is made and the outcome of the
\* call is that of the static pass.  In the remaining case a static pass that
\* returned its record is followed by the headless retry of lines 81-88, and
\* the call returns the record of the rendered page or, when the retry fails,
\* the static record.
C5_StaticRecordKeptUnlessRetry ==
    (/\ pc = "done" /\ mode = "requests"
     /\ Len(passes) >= 1
     /\ (passes[1].has_jobposting \/ ~passes[1].flagged))
    => IF \/ passes[1].has_jobposting
          \/ passes[1].has_detail
          \/ ~HAS_PLAYWRIGHT
          \/ ~_domain_is_jobup(passes[1].source_url.netloc)
          \/ ~_is_probable_detail_url(passes[1].source_url)
       THEN /\ n_headless = 0
            /\ result = passes[1].out
       ELSE IF passes[1].out.kind = "record"
            THEN /\ n_headless = 1
                 /\ IF Len(passes) = 2 /\ passes[2].out.kind = "record"
                    THEN result = passes[2].out
                    ELSE result = passes[1].out
            ELSE /\ n_headless = 0
                 /\ result = passes[1].out

\* C5: a jobup.ch detail page with the detail signal, imported with the
\* headless fetcher available, returned from the static pass
C5_Witness ==
    /\ pc = "done" /\ mode = "requests" /\ HAS_PLAYWRIGHT
    /\ Len(passes) = 1
    /\ passes[1].has_detail /\ ~passes[1].has_jobposting
    /\ _domain_is_jobup(passes[1].source_url.netloc)
    /\ _is_probable_detail_url(passes[1].source_url)
    /\ result.kind = "record"
    /\ n_headless = 0

\* C6: a call of import_offer_from_url calls _fetch_html at most once and
\* _fetch_html_playwright at most once, the headless fetch starting only after
\* the static fetch has returned; a call of import_offer_from_url_browser makes
\* at most one headless fetch and no static fetch; a call makes at most
\* MaxAttempts GETs and at most two extraction passes.
C6_SingleFlight ==
    /\ n_static <= 1
    /\ n_headless <= 1
    /\ n_parse <= 2
    /\ attempt < MaxAttempts
    /\ mode = "browser" => n_static = 0 /\ n_parse <= 1
    /\ (mode = "requests" /\ (pc \in PwPcs \/ n_headless = 1)) =>
           n_static = 1 /\ Len(passes) >= 1
    /\ pc = "fetch" => n_headless = 0 /\ n_parse = 0

\* C6: a call that made the static fetch, then the headless fetch, and two
\* extraction passes
C6_Witness ==
    /\ pc = "done" /\ mode = "requests"
    /\ n_static = 1 /\ n_headless = 1 /\ n_parse = 2

\* C7: an extraction pass aborts with the unsupported-page error exactly when
\* the page has no JobPosting signal, no detail signal and is flagged by the
\* classifier; the dump is written before and the message carries its
\* non-empty path; a page with a JobPosting signal is never rejected.
C7_TrustGate ==
    \A i \in 1..Len(passes) :
        LET p == passes[i]
        IN /\ Unsupported(p.out) <=>
                  (~p.has_jobposting /\ ~p.has_detail /\ p.flagged)
           /\ Unsupported(p.out) =>
                  /\ p.out.dump # NoPath
                  /\ \E j \in 1..Len(dumps) : dumps[j] = p.out.dump
           /\ p.has_jobposting => ~Unsupported(p.out)

\* C8: when a call fails after a dump was written during it, the message of
\* the error contains the path of a dump.
C8_ErrorCarriesDump ==
    (pc = "done" /\ result.kind = "error" /\ dumps # <<>>) =>
        \E j \in 1..Len(dumps) : result.dump = dumps[j]

\* C9: a failure to write the dump is swallowed: it never ends an extraction
\* pass nor the call with an exception of its own.
C9_DumpFailureSwallowed ==
    /\ \A i \in 1..Len(passes) :
           passes[i].out.kind = "error" => passes[i].out.class # "OSError"
    /\ result.kind = "error" => result.class # "OSError"

\* C10: every extraction pass that ended wrote a dump, and every returned
\* record carries a non-empty _dump_path.
C10_EveryPassDumps ==
    /\ Len(dumps) = Len(passes)
    /\ result.kind = "record" =>
           /\ "_dump_path" \in DOMAIN result.data
           /\ result.data["_dump_path"] # NoPath

\* C11: an input URL that is empty or lacks a scheme or a host makes
\* import_offer_from_url, and import_offer_from_url_browser when the headless
\* fetcher is available, end at once with the URL error: no GET, no browser
\* fetch, no extraction pass and no dump happened in the call.
C11_InvalidUrlFailsFast ==
    (/\ pc \notin {"idle"}
     /\ (url = EmptyUrl \/ url.scheme = "" \/ url.netloc = <<>>)
     /\ (mode = "requests" \/ HAS_PLAYWRIGHT))
    => /\ pc = "done"
       /\ result.kind = "error" /\ result.class = "UrlImportError"
       /\ result.msg = (IF url = EmptyUrl THEN "URL vide" ELSE "URL invalide")
       /\ n_static = 0 /\ n_headless = 0 /\ n_parse = 0 /\ attempt = 0
       /\ dumps = <<>> /\ passes = <<>>

\* C11: a browser-mode call on a URL with a scheme and no host, ended
C11_Witness ==
    /\ pc = "done" /\ mode = "browser" /\ HAS_PLAYWRIGHT
    /\ url = NoHostUrl
    /\ result.kind = "error" /\ result.msg = "URL invalide"

\* C12: a 403 or 429 answer to the static GET ends import_offer_from_url with
\* an error that names that status and advises the browser mode, no dump being
\* written in the call; and a call in which no fetch has returned a document
\* has written no dump.
C12_BlockedFetchNoDump ==
    /\ [](n_fetched = 0 => dumps = <<>>)
    /\ []((pc = "done" /\ result.kind = "error" /\ result.msg = "Acces bloque") =>
            /\ result.class = "UrlImportError"
            /\ result.status \in {403, 429}
            /\ SuggestsBrowser(result.msg)
            /\ dumps = <<>>)
    /\ [][\A st \in {403, 429} :
            GetBlocked(st) =>
                /\ pc' = "done"
                /\ result'.kind = "error" /\ result'.msg = "Acces bloque"
                /\ result'.status = st]_vars

\* C12: a call ended by a 429 answer
C12_Witness ==
    /\ pc = "done" /\ mode = "requests"
    /\ result.kind = "error" /\ result.msg = "Acces bloque" /\ result.status = 429
    /\ n_static = 1 /\ dumps = <<>>

\* C13: one call of _fetch_html issues at most 3 GETs (attempt counts the GETs
\* it has already issued); the first successful answer ends it without another
\* GET; a 403 or 429 answer ends it with the error at whichever attempt; any
\* other failure is followed at once by the next GET, and the fetch error is
\* raised only after the third failure.
C13_RetryPolicy ==
    /\ [](pc = "fetch" => attempt \in 0..2 /\ n_fetched = 0 /\ n_static <= 1)
    /\ [][pc = "fetch" =>
            /\ \/ /\ pc' = "parse" /\ n_fetched' = 1
               \/ /\ pc' = "done" /\ result'.kind = "error"
                  /\ result'.msg = "Acces bloque"
               \/ /\ pc' = "fetch" /\ attempt < 2 /\ attempt' = attempt + 1
                  /\ result' = result /\ n_fetched' = 0
               \/ /\ pc' = "done" /\ result'.kind = "error"
                  /\ result'.msg = "Impossible de recuperer la page"
                  /\ attempt = 2
            /\ (\E st \in {403, 429} : GetBlocked(st)) => pc' = "done"
            /\ GetFails => IF attempt < 2 THEN pc' = "fetch" ELSE pc' = "done"]_vars

\* C13: a call whose three GETs failed
C13_Witness ==
    /\ pc = "done" /\ mode = "requests"
    /\ result.kind = "error" /\ result.msg = "Impossible de recuperer la page"
    /\ n_static = 1 /\ n_fetched = 0

C15_EngineErrorsAreImportErrors ==
    /\ []((pc # "idle" /\ mode = "browser" /\ ~HAS_PLAYWRIGHT) =>
            /\ pc = "done"
            /\ result = UrlImportError("Playwright n'est pas installe")
            /\ browser = "none" /\ context = "none"
            /\ n_headless = 0 /\ n_static = 0 /\ n_fetched = 0)
    /\ [](result.kind = "error" => result.class \in {"UrlImportError", "OSError"})
    /\ [][PlaywrightFails =>
            /\ pc' = "done"
            /\ IF site = "L84"
               THEN result' = Record(static_data)
               ELSE /\ result'.kind = "error"
                    /\ result'.class = "UrlImportError"
                    /\ BrowserFailure(result')]_vars

\* C15: a browser-mode call made without the engine
C15_Witness ==
    /\ pc = "done" /\ mode = "browser" /\ ~HAS_PLAYWRIGHT
    /\ result.kind = "error" /\ result.msg = "Playwright n'est pas installe"

\* the positions of the og:title tags of a page that have a content, and of
\* those whose content is more than whitespace
OgTitleTags(soup) ==
    {i \in 1..Len(soup.metas) :
        soup.metas[i].prop = "og:title" /\ soup.metas[i].content # <<>>}

OgTitleTagsWithText(soup) ==
    {i \in OgTitleTags(soup) : Strip(soup.metas[i].content) # <<>>}

First(S) == CHOOSE i \in S : \A j \in S : i <= j

\* some JSON-LD JobPosting node of the page has a title
HasJobPostingTitle(soup) ==
    \E i \in 1..Len(soup.scripts) :
        \E j \in 1..Len(ScriptNodes(soup.scripts[i])) :
            LET node == ScriptNodes(soup.scripts[i])[j]
            IN node.isdict /\ IsJobType(node.type) /\ node.title.t = "str"

DescPositions(soup) ==
    {c \in UNION {{<<i, j>> : j \in 1..Len(ScriptNodes(soup.scripts[i]))} :
                    i \in 1..Len(soup.scripts)} :
        LET node == ScriptNodes(soup.scripts[c[1]])[c[2]]
        IN /\ node.isdict /\ IsJobType(node.type)
           /\ JTruthy(node.description)
           /\ _strip_html(_as_text(node.description)) # <<>>}

DescAt(soup, c) ==
    _strip_html(_as_text(ScriptNodes(soup.scripts[c[1]])[c[2]].description))

\* document order of two positions
Earlier(c, e) == c[1] < e[1] \/ (c[1] = e[1] /\ c[2] <= e[2])

\* C17: after the JSON-LD extractor has run on a record without description,
\* texte_annonce is the markup-stripped description of maximal length among
\* the JobPosting nodes, the earliest one among those of that length, and it
\* is absent when no node gives one.
C17_RicherDescriptionWins ==
    pc = "jobup" =>
        IF DescPositions(html) = {}
        THEN "texte_annonce" \notin DOMAIN data
        ELSE \E c \in DescPositions(html) :
                /\ data["texte_annonce"] = DescAt(html, c)
                /\ \A e \in DescPositions(html) :
                      \/ TextLen(DescAt(html, e)) < TextLen(DescAt(html, c))
                      \/ /\ TextLen(DescAt(html, e)) = TextLen(DescAt(html, c))
                         /\ Earlier(c, e)

\* C17: a page whose second node gives a longer description than the first,
\* and one whose two nodes give different descriptions of the same length
C17_Witness ==
    /\ pc = "jobup"
    /\ \E c \in DescPositions(html), e \in DescPositions(html) :
          /\ c # e /\ Earlier(c, e)
          /\ TextLen(DescAt(html, c)) < TextLen(DescAt(html, e))
          /\ data["texte_annonce"] = DescAt(html, e)

\* the JSON-LD description of a page: the longest one, the earliest among the
\* longest (<<>> when no JobPosting node gives one)
JsonLdDescription(soup) ==
    IF DescPositions(soup) = {} THEN <<>>
    ELSE DescAt(soup,
           CHOOSE c \in DescPositions(soup) :
              \A e \in DescPositions(soup) :
                 \/ TextLen(DescAt(soup, e)) < TextLen(DescAt(soup, c))
                 \/ /\ TextLen(DescAt(soup, e)) = TextLen(DescAt(soup, c))
                    /\ Earlier(c, e))

\* the staged OpenGraph description of a page: the stripped content of the
\* first og:description tag that has more than whitespace
StagedOgDescription(soup) ==
    LET tags == {i \in 1..Len(soup.metas) :
                   /\ soup.metas[i].prop = "og:description"
                   /\ Strip(soup.metas[i].content) # <<>>}
    IN IF tags = {} THEN <<>> ELSE Strip(soup.metas[First(tags)].content)

\* the description of the detail block of a jobup.ch page, when it counts
BlockDescription(soup, source_site) ==
    IF /\ _domain_is_jobup(source_site)
       /\ soup.jobup.marker /\ soup.jobup.infos
       /\ TextLen(soup.jobup.desc) > 200
    THEN Truncate(soup.jobup.desc, 8000) ELSE <<>>

PageText(soup) ==
    IF Truncate(soup.targeted, 8000) # <<>> THEN Truncate(soup.targeted, 8000)
    ELSE Truncate(soup.visible, 5000)

\* the first non-empty text of a list of sources, the last one otherwise
RECURSIVE FirstNonEmpty(_)
FirstNonEmpty(sources) ==
    IF Len(sources) = 1 \/ Head(sources) # <<>> THEN Head(sources)
    ELSE FirstNonEmpty(Tail(sources))

ReturnedPasses == {i \in 1..Len(passes) : passes[i].out.kind = "record"}

ListingTitle(soup) ==
    \E m \in listing_markers : Contains(Lower(Strip(soup.title)), m)

\* line 562: the marketing keywords the staged OpenGraph description contains
MarketingKeywords(d) ==
    {m \in generic_markers : Contains(Lower(Get(d, "_og_description")), m)}

\* the classification the rule of lines 532-564 gives a document and a record
ListingOrShell(soup, d) ==
    IF d["_has_detail"] THEN FALSE
    ELSE IF ListingTitle(soup) THEN TRUE
    ELSE IF /\ Len(soup.scripts) >= 1
            /\ ~d["_has_jobposting"]
            /\ Cardinality(MarketingKeywords(d)) >= 2 THEN TRUE
    ELSE FALSE

\* C19 as stated: at the trust gate the classifier gives false when
\* _has_detail is set, otherwise true on a listing title, otherwise true on a
\* page with a ld+json script, no JobPosting and 2 marketing keywords in the
\* OpenGraph description, otherwise false; and every document titled
\* "Offres d'emploi - resultats" without JobPosting is classified listing.
C19_Classifier ==
    pc = "gate" =>
        /\ _looks_like_listing_or_shell(html, data) = ListingOrShell(html, data)
        /\ (html.title = ListingResultsTitle /\ ~data["_has_jobposting"])
              => _looks_like_listing_or_shell(html, data)

\* C19, amended: the classifier follows the rule above and leaves the
\* document and the record as they were (the fallbacks run on the record the
\* classifier was given); a document titled "Offres d'emploi - resultats"
\* without JobPosting is classified listing when _has_detail is not set.
C19_ClassifierUnlessDetail ==
    /\ [](pc = "gate" =>
            /\ _looks_like_listing_or_shell(html, data) = ListingOrShell(html, data)
            /\ (html.title = ListingResultsTitle /\ ~data["_has_jobposting"]
                  /\ ~data["_has_detail"])
                  => _looks_like_listing_or_shell(html, data))
    /\ [][(pc = "gate" /\ pc' = "dump") =>
             html' = html /\ data' = FallbackFill(html, data)]_vars

\* C19: the result list "Offres d'emploi - resultats" without JobPosting and
\* without detail block reaches the trust gate and is classified listing
C19_Witness ==
    /\ pc = "gate"
    /\ html.title = ListingResultsTitle
    /\ ~data["_has_jobposting"] /\ ~data["_has_detail"]
    /\ _looks_like_listing_or_shell(html, data)

\* lines 305-319: json.loads gives an object, a list or an object with @graph
Parses(script) == script.kind \in {"object", "list", "graph"}

\* line 322
IsObject(node) == node.isdict

\* the document without its malformed scripts and without the nodes that are
\* not objects
WithoutMalformed(soup) ==
    LET kept == SelectSeq(soup.scripts, Parses)
    IN [soup EXCEPT !.scripts =
          [i \in 1..Len(kept) |->
              Script(kept[i].kind, SelectSeq(kept[i].nodes, IsObject))]]

\* C20: the JSON-LD extractor skips a script that is empty, is not JSON or is
\* a JSON scalar, and a node that is not an object, without raising: the pass
\* goes on to the next extractor and the record is the one the extractor
\* gives on the document without these scripts and nodes.
C20_MalformedScriptsSkipped ==
    [][pc = "jsonld" =>
          /\ pc' = "jobup" /\ result' = result
          /\ data' = _extract_json_ld_jobposting(WithoutMalformed(html), data)]_vars

\* C20: a page with a malformed script next to a JobPosting script went
\* through the JSON-LD extractor, which filled the record from the JobPosting
C20_Witness ==
    /\ pc = "jobup"
    /\ \E i \in 1..Len(html.scripts) : ~Parses(html.scripts[i])
    /\ \E i \in 1..Len(html.scripts) : Parses(html.scripts[i])
    /\ data["_has_jobposting"] /\ Truthy(data, "entreprise")

\* line 306: json.loads raises on the content of the script
InvalidJson(script) == script.kind = "invalid"

ValidJson(script) == ~InvalidJson(script)

\* the document without its scripts of invalid JSON
WithoutInvalidJson(soup) == [soup EXCEPT !.scripts = SelectSeq(@, ValidJson)]

\* C21: a ld+json script of invalid JSON changes nothing to the outcome of the
\* import: at the trust gate, where the record is the one the page without
\* the script gives (the extractor skips the script), the page is rejected
\* exactly when the page without the script is.
C21_BrokenScriptIsNoOp ==
    (pc = "gate" /\ \E i \in 1..Len(html.scripts) : InvalidJson(html.scripts[i])) =>
        Rejected(html, data) = Rejected(WithoutInvalidJson(html), data)

\* lines 125-142: the record of a pass when it reaches the trust gate, as its
\* three inputs give it
ExtractedRecord(soup, u, fu) ==
    LET d0 == [_has_jobposting |-> FALSE,
               _has_detail |-> FALSE,
               url |-> u,
               source_url |-> FinalOr(fu, u),
               source_site |-> NetlocLower(FinalOr(fu, u).netloc),
               source |-> _humanize_domain(NetlocLower(FinalOr(fu, u).netloc))]
        d1 == _extract_json_ld_jobposting(soup, _extract_opengraph(soup, d0))
    IN IF _domain_is_jobup(d1["source_site"])
       THEN _extract_jobup_detail_from_page(soup, d1) ELSE d1

\* a record without its _dump_path
WithoutDumpPath(d) == [k \in DOMAIN d \ {"_dump_path"} |-> d[k]]

\* the pass that ends in this step
EndingPass == passes'[Len(passes')]

\* C22: the outcome of an extraction pass is a function of html, url and
\* final_url alone: the pass is rejected when the gate rejects the record these
\* inputs give, and otherwise returns the record they give, _dump_path apart.
C22_PassDeterministic ==
    [][Len(passes') = Len(passes) + 1 =>
          IF Rejected(html, ExtractedRecord(html, url, final_url))
          THEN Unsupported(EndingPass.out)
          ELSE /\ EndingPass.out.kind = "record"
               /\ WithoutDumpPath(EndingPass.out.data)
                     = FallbackFill(html, ExtractedRecord(html, url, final_url))]_vars

\* C23: _has_detail is true only on a page of a domain known to need the
\* heuristic whose details marker and job-info section are present, when the
\* record holds a non-empty title that does not look like SEO or category
\* text and a description longer than 200 characters.
C23_DetailFlagNeedsPlausibleTitle ==
    (pc \in {"gate", "dump"} /\ data["_has_detail"]) =>
        /\ _domain_is_jobup(data["source_site"])
        /\ html.jobup.marker /\ html.jobup.infos
        /\ Strip(Get(data, "titre_poste")) # <<>>
        /\ ~_is_seo(Get(data, "titre_poste"))
        /\ TextLen(Get(data, "texte_annonce")) > DetailMinLen

\* C26: import_offer_from_url starts the headless fetcher only when the
\* headless engine is available and the final URL of the static page is on
\* jobup.ch: otherwise no browser is launched, whatever the static fetch and
\* the extraction gave.
C26_BrowserOnlyOnJobup ==
    (mode = "requests" /\ (n_headless >= 1 \/ browser # "none" \/ pc \in PwPcs)) =>
        /\ HAS_PLAYWRIGHT
        /\ Len(passes) >= 1
        /\ _domain_is_jobup(passes[1].source_url.netloc)

\* C26: with the headless engine available, a page of another domain whose URL
\* looks like a detail URL gave a record without signals, or was rejected, and
\* the call ended without a browser
C26_Witness ==
    /\ pc = "done" /\ mode = "requests" /\ HAS_PLAYWRIGHT
    /\ Len(passes) = 1
    /\ ~_domain_is_jobup(passes[1].source_url.netloc)
    /\ _is_probable_detail_url(passes[1].source_url)
    /\ ~passes[1].has_jobposting /\ ~passes[1].has_detail
    /\ browser = "none" /\ n_headless = 0

\* C27: when the static pass returned a record and the headless retry made
\* after it fails (the browser fetch fails, or the pass over the rendered page
\* ends with an exception), import_offer_from_url returns the record of the
\* static pass, unchanged.
C27_RetryFailureKeepsStaticRecord ==
    (/\ pc = "done" /\ mode = "requests" /\ n_headless = 1
     /\ Len(passes) >= 1 /\ passes[1].out.kind = "record"
     /\ (Len(passes) = 1 \/ passes[2].out.kind = "error"))
    => result = passes[1].out

\* C27: a call whose static pass returned a record without signals and whose
\* rendered page was rejected as listing, which returned the static record
C27_Witness ==
    /\ pc = "done" /\ mode = "requests" /\ n_headless = 1
    /\ Len(passes) = 2
    /\ passes[1].out.kind = "record"
    /\ ~passes[1].has_jobposting /\ ~passes[1].has_detail
    /\ Unsupported(passes[2].out)
    /\ result = passes[1].out

\* C29: in every record a pass returns, url is the URL of the call, as the
\* entry point normalized it, source_url is the final URL of the fetch that
\* gave the document (the URL of the call when the fetcher reported none) and
\* source_site the lower-cased host of source_url; the record a call returns
\* is the record of one of its passes, the headless one included.
C29_Provenance ==
    /\ [][(Len(passes') = Len(passes) + 1 /\ EndingPass.out.kind = "record") =>
             /\ EndingPass.out.data["url"] = url
             /\ EndingPass.out.data["source_url"] = FinalOr(final_url, url)
             /\ EndingPass.out.data["source_site"]
                   = NetlocLower(FinalOr(final_url, url).netloc)]_vars
    /\ [](result.kind = "record" =>
             /\ result.data["url"] = url /\ Normalize(url) = url
             /\ \E i \in 1..Len(passes) : passes[i].out = result)

\* C29: a record that comes from the headless re-fetch, whose final URL is not
\* the requested one
C29_Witness ==
    /\ pc = "done" /\ mode = "requests" /\ Len(passes) = 2
    /\ result = passes[2].out /\ result.kind = "record"
    /\ result.data["url"] = url
    /\ result.data["source_url"] # url

\* the host of the final URL of a record, lower-cased, without "www." and
\* without port
DomainOf(d) == _humanize_domain(NetlocLower(d["source_url"].netloc))

\* C30: once the OpenGraph extractor has run, and in every record a pass or a
\* call returns, source is the host of the final URL without "www." and
\* without port, whatever og:site_name the page declares.
C30_SourceIsDomain ==
    /\ pc \in {"jsonld", "jobup", "gate", "dump"} => data["source"] = DomainOf(data)
    /\ \A i \in ReturnedPasses : passes[i].out.data["source"] = DomainOf(passes[i].out.data)
    /\ result.kind = "record" => result.data["source"] = DomainOf(result.data)

\* C30: a page that declares an og:site_name which is not its domain went
\* through the extractors and its record is about to be returned
C30_Witness ==
    /\ pc = "dump"
    /\ \E i \in 1..Len(html.metas) :
          /\ html.metas[i].prop = "og:site_name"
          /\ Strip(html.metas[i].content) # <<>>
          /\ Strip(html.metas[i].content) # data["source"]
    /\ data["source"] = DomainOf(data)

\* C24: from the start of an import until it has ended both prefill buttons
\* are disabled; when it has ended each prefill button is in the state it had
\* before the import started, and the page is not left busy: nothing is kept
\* to restore and the other buttons are enabled again.
C24_NoConcurrentImport ==
    /\ [](form.pc # "idle" => ~form.btn_prefill /\ ~form.btn_prefill_browser)
    /\ [](form.pc = "idle" =>
            /\ form._busy_restore_prefill = None /\ form._busy_restore_browser = None
            /\ form.btn_open_url /\ form.btn_save)
    /\ [][(form.pc # "idle" /\ form'.pc = "idle") =>
            /\ form'.btn_prefill = OrElse(form.at_start, [prefill |-> FALSE]).prefill
            /\ form'.btn_prefill_browser = OrElse(form.at_start, [browser |-> FALSE]).browser]_vars

\* C25: update_candidature changes only the fields whose value in
\* CandidatureUpdateData is not None: each of statut, date_envoi, notes and
\* chemin_lettre left at None keeps its stored value, a field that is given
\* takes the given value, and the other rows are untouched; an unknown id
\* raises ValueError and no candidature changes.
C25_PartialUpdate ==
    [][\A cand_id \in CandIds, upd \in CandidatureUpdateData :
         update_candidature(cand_id, upd) =>
            IF Known(cand_id)
            THEN /\ call'.raised = "none"
                 /\ \A j \in DOMAIN candidatures \ {cand_id} :
                       candidatures'[j] = candidatures[j]
                 /\ \A f \in {"statut", "notes", "chemin_lettre"} :
                       candidatures'[cand_id][f] =
                          IF upd[f] = None THEN candidatures[cand_id][f] ELSE The(upd[f])
                 /\ candidatures'[cand_id].date_envoi =
                       IF upd.date_envoi = None THEN candidatures[cand_id].date_envoi
                       ELSE upd.date_envoi
            ELSE /\ call'.raised = "ValueError"
                 /\ candidatures' = candidatures]_vars

====
